---- MODULE Spec2Model ----
(***************************************************************************)
(* Temporal graph store of Raphtory/docbrown: a sharded, append-only store *)
(* of timestamped vertex and edge observations with per-entity property    *)
(* histories, read through full, windowed and point-in-time views.         *)
(*                                                                         *)
(* The engine itself is not among the repository's Python sources; its     *)
(* observable behaviour is pinned down by src/raphtory/tests/              *)
(* test_graphdb.py, and where the tests are silent the operators follow    *)
(* the written specification of the store.                                 *)
(***************************************************************************)
EXTENDS Integers, Sequences, FiniteSets, Bags, TLC

\* ------------------------------------------------------------------ bounds
\* Number of add_vertex/add_edge calls explored from the empty store.
MaxWrites == 3
\* Largest window_size / step of a generated perspective set.
MaxStep == 5

\* --------------------------------------------------------- program values
\* Graph(num_shards): the shard count used by create_graph(2).
NumShards == 2
\* Vertex ids of the test fixture.
Ids == {1, 2, 3}
\* Timestamps drawn by the explored writes.
Times == {0, 1}
\* Window bounds: around each timestamp lie a bound below it, the bound equal
\* to it and a bound above it, so a timestamp can fall before, at the
\* inclusive start of, inside, at the exclusive end of, and after a window.
WinBounds == {-1, 0, 1, 2}

\* Optional values: an absent bound / an absent lookup result.
None == <<>>
Some(x) == <<x>>

\* Property inputs: mappings from property name to a tagged primitive value.
NoProps == [n \in {} |-> <<"Int", 0>>]
PropInputs ==
    { [n \in {"prop1"} |-> <<"Int", 1>>],
      [n \in {"prop1", "prop2"} |-> IF n = "prop1" THEN <<"Int", 2>> ELSE <<"Str", "test">>] }

\* ------------------------------------------------------------ finite maps
Get(m, k, default) == IF k \in DOMAIN m THEN m[k] ELSE default
EmptyMap == [k \in {} |-> <<>>]

\* ----------------------------------------------------------------- shards
Shards(g) == DOMAIN g

\* Shard assignment: hash(id) mod num_shards.
get_shard(id, n) == id % n

EmptyShard ==
    [ vindex |-> {},          \* vertex temporal index: <<id, t>>
      eindex |-> EmptyBag,    \* edge temporal index: bag of <<src, dst, t>>
      vprops |-> EmptyMap,    \* <<id, name>> -> sequence of <<t, value>>
      eprops |-> EmptyMap ]   \* <<src, dst, name>> -> sequence of <<t, value>>

\* Graph(num_shards)
Graph(n) == [s \in 0..(n - 1) |-> EmptyShard]

\* Appends one <<t, value>> entry per supplied property to the entity's histories.
append_props(store, entity, t, props) ==
    LET keys == {entity \o <<n>> : n \in DOMAIN props}
    IN  [k \in (DOMAIN store) \cup keys |->
            IF k \in keys
            THEN Append(Get(store, k, <<>>), <<t, props[k[Len(k)]]>>)
            ELSE store[k]]

\* Mutant: only the edge's owner, src, is asserted to exist.
edge_endpoints_src_only(t, src, dst) == {<<src, t>>}

\* The existence assertions an edge observation makes for its endpoints.
edge_endpoints(t, src, dst) == {<<src, t>>, <<dst, t>>}

\* add_vertex(time, id, props)
add_vertex(g, t, id, props) ==
    LET s == get_shard(id, Cardinality(Shards(g)))
    IN  [g EXCEPT ![s] =
            [@ EXCEPT !.vindex = @ \cup {<<id, t>>},
                      !.vprops = append_props(@, <<id>>, t, props)]]

\* Mutant: the existence of dst is also recorded in the shard of dst.
add_edge_into_dst_shard(g, t, src, dst, props) ==
    LET s == get_shard(src, Cardinality(Shards(g)))
        d == get_shard(dst, Cardinality(Shards(g)))
        g1 == [g EXCEPT ![s] =
                [@ EXCEPT !.vindex = @ \cup edge_endpoints(t, src, dst),
                          !.eindex = @ (+) SetToBag({<<src, dst, t>>}),
                          !.eprops = append_props(@, <<src, dst>>, t, props)]]
    IN  [g1 EXCEPT ![d] = [@ EXCEPT !.vindex = @ \cup {<<dst, t>>}]]

\* add_edge(time, src, dst, props): owned by src's shard.
add_edge(g, t, src, dst, props) ==
    LET s == get_shard(src, Cardinality(Shards(g)))
    IN  [g EXCEPT ![s] =
            [@ EXCEPT !.vindex = @ \cup edge_endpoints(t, src, dst),
                      !.eindex = @ (+) SetToBag({<<src, dst, t>>}),
                      !.eprops = append_props(@, <<src, dst>>, t, props)]]

\* ------------------------------------------------------ writes in flight
\* A write call builds its observation in a private draft of the owning
\* shard, one structure at a time, and publishes the draft in one step.
\* A call is <<kind, t, src or id, dst or id, props>>.
stage_edge(sh, c) ==
    [sh EXCEPT !.eindex = @ (+) SetToBag({<<c[3], c[4], c[2]>>})]

stage_vertices(sh, c) ==
    [sh EXCEPT !.vindex = @ \cup (IF c[1] = "add_vertex"
                                  THEN {<<c[3], c[2]>>}
                                  ELSE edge_endpoints(c[2], c[3], c[4]))]

stage_props(sh, c) ==
    IF c[1] = "add_vertex"
    THEN [sh EXCEPT !.vprops = append_props(@, <<c[3]>>, c[2], c[5])]
    ELSE [sh EXCEPT !.eprops = append_props(@, <<c[3], c[4]>>, c[2], c[5])]

\* Mutant: the write is staged in the published shard itself.
staged_in_place(g, s, draft) == [g EXCEPT ![s] = draft]

\* The store readers reach while shard s has a staged draft: the draft is
\* private, the published shards are as before.
staged(g, s, draft) == g

\* The store once the finished draft of shard s is published.
publish(g, s, draft) == [g EXCEPT ![s] = draft]

\* ------------------------------------------------------------------ views
FullView == [kind |-> "full", start |-> None, end |-> None]
\* window(start, end), either bound optional
Window(start, end) == [kind |-> "window", start |-> start, end |-> end]
window(a, b) == Window(Some(a), Some(b))
\* at(time)
at(t) == [kind |-> "at", start |-> None, end |-> Some(t)]

\* Mutant: the end bound is inclusive.
in_window_inclusive(start, end, t) ==
    /\ (start = None \/ start[1] <= t)
    /\ (end = None \/ t <= end[1])

\* window(start, end) holds the observations with start <= t < end.
in_window(start, end, t) ==
    /\ (start = None \/ start[1] <= t)
    /\ (end = None \/ t < end[1])

\* Mutant: the point-in-time view stops short of its own timestamp.
in_at_exclusive(end, t) == t < end

\* at(t) shows the cumulative state as of and including time t.
in_at(end, t) == t <= end

in_view(view, t) ==
    CASE view.kind = "full"   -> TRUE
      [] view.kind = "window" -> in_window(view.start, view.end, t)
      [] view.kind = "at"     -> in_at(view.end[1], t)

\* ----------------------------------------------------------- perspectives
\* Perspective(start, end), either bound optional.
Perspective(start, end) == [start |-> start, end |-> end]

\* Perspective.rolling(window_size, start, end): the cursor advances by
\* window_size and every perspective is window_size wide.
rolling(window_size, start, end) ==
    [start |-> start, end |-> end, step |-> window_size, window |-> Some(window_size)]

\* Perspective.expanding(step, start, end): the cursor advances by step and
\* the perspectives have no lower bound.
expanding(step, start, end) ==
    [start |-> start, end |-> end, step |-> step, window |-> None]

\* Mutant: the cursor is where the perspective begins.
perspective_from(ps, cursor) ==
    IF ps.window = None
    THEN Perspective(None, Some(cursor + ps.step))
    ELSE Perspective(Some(cursor), Some(cursor + ps.window[1]))

\* The perspective of one cursor position: it ends at the cursor and looks
\* back over the window, as g.window(t - 2, t) for t in [2, 4, 6].
perspective_at(ps, cursor) ==
    IF ps.window = None
    THEN Perspective(None, Some(cursor))
    ELSE Perspective(Some(cursor - ps.window[1]), Some(cursor))

\* The cursor starts at start and stops once the previous cursor position
\* has reached end: rolling(5, start=0, end=4) has the positions 0 and 5.
has_next(ps, cursor) == cursor - ps.step < ps.end

\* The perspectives of a set, in order, from a cursor position onwards.
RECURSIVE generate(_, _)
generate(ps, cursor) ==
    IF has_next(ps, cursor)
    THEN <<perspective_at(ps, cursor)>> \o generate(ps, cursor + ps.step)
    ELSE <<>>

\* through(perspectives): one windowed view per perspective, in order.
through(perspectives) ==
    [i \in 1..Len(perspectives) |-> Window(perspectives[i].start, perspectives[i].end)]

\* ------------------------------------------------------- temporal indexes
\* All <<id, t>> entries of the vertex temporal indexes, over every shard.
vertex_entries(g) == UNION {g[s].vindex : s \in Shards(g)}
\* All distinct <<src, dst, t>> edge observations, over every shard.
edge_entries(g) == UNION {BagToSet(g[s].eindex) : s \in Shards(g)}
\* Number of observations recorded for <<src, dst, t>>.
edge_copies(g, e) ==
    LET s == get_shard(e[1], Cardinality(Shards(g)))
    IN  CopiesIn(e, g[s].eindex)

\* ---------------------------------------------------------------- queries
Directions == {"IN", "OUT", "BOTH"}

\* Edge observations <<src, dst, t>> that fall inside the view.
edges_in_view(g, view) == {e \in edge_entries(g) : in_view(view, e[3])}

has_vertex(g, view, id) ==
    \E s \in Shards(g) : \E e \in g[s].vindex : e[1] = id /\ in_view(view, e[2])

vertex_ids(g, view) ==
    {e[1] : e \in {x \in vertex_entries(g) : in_view(view, x[2])}}

\* vertex(id): the vertex view, or an absent result.
vertex(g, view, id) == IF has_vertex(g, view, id) THEN Some(id) ELSE None

len(g, view) == Cardinality(vertex_ids(g, view))

\* Mutant: the pair is matched in either direction.
has_edge_undirected(g, view, src, dst) ==
    \E e \in edge_entries(g) :
        /\ in_view(view, e[3])
        /\ (e[1] = src /\ e[2] = dst) \/ (e[1] = dst /\ e[2] = src)

\* An edge is looked up in the shard that owns it, the shard of src.
has_edge(g, view, src, dst) ==
    LET sh == g[get_shard(src, Cardinality(Shards(g)))]
    IN  \E e \in BagToSet(sh.eindex) :
            e[1] = src /\ e[2] = dst /\ in_view(view, e[3])

\* edge(src, dst): the edge view, or an absent result.
edge(g, view, src, dst) ==
    IF has_edge(g, view, src, dst) THEN Some(<<src, dst>>) ELSE None

\* Mutant: every observation time of a pair is counted.
edges_len_per_time(g, view) == Cardinality(edges_in_view(g, view))

\* Distinct (src, dst) pairs observed inside the view.
edges_len(g, view) ==
    Cardinality({<<e[1], e[2]>> : e \in edges_in_view(g, view)})

\* Out-edges are read from the shard that owns v.
out_neighbours_ids(g, view, v) ==
    LET sh == g[get_shard(v, Cardinality(Shards(g)))]
    IN  {e[2] : e \in {x \in BagToSet(sh.eindex) : x[1] = v /\ in_view(view, x[3])}}

\* Mutant: in-edges of every time are gathered, the view is ignored.
in_neighbours_ids_all_time(g, view, v) ==
    {e[1] : e \in {x \in edge_entries(g) : x[2] = v}}

\* In-edges are gathered from every shard.
in_neighbours_ids(g, view, v) ==
    {e[1] : e \in {x \in edge_entries(g) : x[2] = v /\ in_view(view, x[3])}}

\* Mutant: a vertex is never counted among its own neighbours.
neighbours_ids_no_self(g, view, v, dir) ==
    CASE dir = "OUT"  -> out_neighbours_ids(g, view, v)
      [] dir = "IN"   -> in_neighbours_ids(g, view, v)
      [] dir = "BOTH" -> (in_neighbours_ids(g, view, v) \cup out_neighbours_ids(g, view, v)) \ {v}

neighbours_ids(g, view, v, dir) ==
    CASE dir = "OUT"  -> out_neighbours_ids(g, view, v)
      [] dir = "IN"   -> in_neighbours_ids(g, view, v)
      [] dir = "BOTH" -> in_neighbours_ids(g, view, v) \cup out_neighbours_ids(g, view, v)

\* Mutant: BOTH is computed as the sum of the two directed degrees.
degree_sum(g, view, v, dir) ==
    IF dir = "BOTH"
    THEN Cardinality(in_neighbours_ids(g, view, v)) + Cardinality(out_neighbours_ids(g, view, v))
    ELSE Cardinality(neighbours_ids(g, view, v, dir))

\* Mutant: degree counts edge observations instead of neighbours.
degree_observations(g, view, v, dir) ==
    LET count(S) == BagCardinality([e \in S |-> edge_copies(g, e)])
        outs == {e \in edges_in_view(g, view) : e[1] = v}
        ins  == {e \in edges_in_view(g, view) : e[2] = v}
    IN  CASE dir = "OUT"  -> count(outs)
          [] dir = "IN"   -> count(ins)
          [] dir = "BOTH" -> count(outs) + count(ins)

\* degree(): the number of distinct neighbour ids in the direction asked.
degree(g, view, v, dir) == Cardinality(neighbours_ids(g, view, v, dir))

\* ------------------------------------------------------------- properties
\* Stable insertion of e into a sequence already ascending by timestamp.
insert_by_time(sorted, e) ==
    LET k == Cardinality({i \in 1..Len(sorted) : sorted[i][1] <= e[1]})
    IN  SubSeq(sorted, 1, k) \o <<e>> \o SubSeq(sorted, k + 1, Len(sorted))

RECURSIVE sort_by_time(_)
sort_by_time(s) ==
    IF s = <<>> THEN <<>>
    ELSE insert_by_time(sort_by_time(SubSeq(s, 1, Len(s) - 1)), s[Len(s)])

\* The stored history (insertion order) of one property of a vertex <<id>>
\* or an edge <<src, dst>>.
prop_store(g, entity) ==
    LET sh == g[get_shard(entity[1], Cardinality(Shards(g)))]
    IN  IF Len(entity) = 1 THEN sh.vprops ELSE sh.eprops

history(g, entity, name) == Get(prop_store(g, entity), entity \o <<name>>, <<>>)

\* The property names the entity carries.
prop_names(g, entity) ==
    {k[Len(k)] : k \in {x \in DOMAIN prop_store(g, entity) :
                            SubSeq(x, 1, Len(x) - 1) = entity}}

restrict(view, h) ==
    LET keep(e) == in_view(view, e[1]) IN SelectSeq(h, keep)

\* Drops every entry whose value repeats the value of the entry before it.
RECURSIVE drop_repeats(_)
drop_repeats(h) ==
    IF Len(h) < 2 THEN h
    ELSE LET front == drop_repeats(SubSeq(h, 1, Len(h) - 1))
         IN  IF h[Len(h)][2] = h[Len(h) - 1][2] THEN front ELSE Append(front, h[Len(h)])

\* Mutant: an unchanged value is reported once, at its first timestamp.
prop_changes_only(g, view, entity, name) ==
    drop_repeats(sort_by_time(restrict(view, history(g, entity, name))))

\* prop(name): the <<t, value>> history inside the view, ascending by time.
prop(g, view, entity, name) == sort_by_time(restrict(view, history(g, entity, name)))

\* props(): every property name the entity carries, with its history.
props(g, view, entity) ==
    [n \in prop_names(g, entity) |-> prop(g, view, entity, n)]

\* ------------------------------------------------------------- algorithms
local_triangle_count(g, view, v) ==
    LET ns == neighbours_ids(g, view, v, "BOTH")
        pairs == {p \in SUBSET ns : Cardinality(p) = 2}
        joined(p) == \E a \in p : \E b \in p :
                        a # b /\ has_edge(g, view, a, b)
    IN  Cardinality({p \in pairs : joined(p)})

\* ------------------------------------------------------------ persistence
\* A set laid out as a sequence, in the order the writer happens to visit it.
RECURSIVE set_to_seq(_)
set_to_seq(S) ==
    IF S = {} THEN <<>>
    ELSE LET x == CHOOSE x \in S : TRUE
         IN  <<x>> \o set_to_seq(S \ {x})

Range(f) == {f[i] : i \in DOMAIN f}

\* One shard's snapshot: flat lists of index entries and property histories.
serialize_shard(sh) ==
    [ vertices |-> set_to_seq(sh.vindex),
      edges    |-> set_to_seq({<<e, CopiesIn(e, sh.eindex)>> : e \in BagToSet(sh.eindex)}),
      vprops   |-> set_to_seq({<<k, sh.vprops[k]>> : k \in DOMAIN sh.vprops}),
      eprops   |-> set_to_seq({<<k, sh.eprops[k]>> : k \in DOMAIN sh.eprops}) ]

\* Mutant: the loader keeps only the entries at which a value changes.
load_props_changes_only(list) ==
    [k \in {x[1] : x \in Range(list)} |->
        drop_repeats((CHOOSE x \in Range(list) : x[1] = k)[2])]

\* Rebuilds a property store from its <<key, history>> list.
load_props(list) ==
    [k \in {x[1] : x \in Range(list)} |->
        (CHOOSE x \in Range(list) : x[1] = k)[2]]

\* Rebuilds an edge temporal index from its <<observation, copies>> list.
load_edges(list) ==
    [e \in {x[1] : x \in Range(list)} |->
        (CHOOSE x \in Range(list) : x[1] = e)[2]]

deserialize_shard(rec) ==
    [ vindex |-> Range(rec.vertices),
      eindex |-> load_edges(rec.edges),
      vprops |-> load_props(rec.vprops),
      eprops |-> load_props(rec.eprops) ]

\* save_to_file(path): the snapshot of every shard, in shard order.
save_to_file(g) ==
    [i \in 1..Cardinality(Shards(g)) |-> serialize_shard(g[i - 1])]

\* load_from_file(path): an independent store with the snapshot's shard count.
load_from_file(f) ==
    [s \in 0..(Len(f) - 1) |-> deserialize_shard(f[s + 1])]

\* ---------------------------------------------------------------- fixture
\* create_graph(num_shards) of the test suite: three add_vertex calls, then
\* six add_edge calls that all carry the same three properties.
RECURSIVE apply_calls(_, _)
apply_calls(g, cs) ==
    IF cs = <<>> THEN g
    ELSE LET c == Head(cs)
             g1 == IF c[1] = "add_vertex"
                   THEN add_vertex(g, c[2], c[3], c[5])
                   ELSE add_edge(g, c[2], c[3], c[4], c[5])
         IN  apply_calls(g1, Tail(cs))

wallet(cost) ==
    [n \in {"type", "cost"} |-> IF n = "type" THEN <<"Str", "wallet">> ELSE cost]

fixture_edge_props ==
    [n \in {"prop1", "prop2", "prop3"} |->
        CASE n = "prop1" -> <<"Int", 1>>
          [] n = "prop2" -> <<"Float", "9.8">>
          [] n = "prop3" -> <<"Str", "test">>]

fixture_calls ==
    << <<"add_vertex", 0, 1, 1, wallet(<<"Float", "99.5">>)>>,
       <<"add_vertex", -1, 2, 2, wallet(<<"Float", "10.0">>)>>,
       <<"add_vertex", 6, 3, 3, wallet(<<"Int", 76>>)>>,
       <<"add_edge", 1, 1, 2, fixture_edge_props>>,
       <<"add_edge", 2, 1, 3, fixture_edge_props>>,
       <<"add_edge", -1, 2, 1, fixture_edge_props>>,
       <<"add_edge", 0, 1, 1, fixture_edge_props>>,
       <<"add_edge", 7, 3, 2, fixture_edge_props>>,
       <<"add_edge", 1, 1, 1, fixture_edge_props>> >>

create_graph(n) == apply_calls(Graph(n), fixture_calls)

\* ------------------------------------------------------------------ state
VARIABLES
    graph,    \* the store
    calls,    \* bag of the write calls made so far (history variable)
    file,     \* the snapshot on disk, or None
    saved,    \* the store as it was when the snapshot was taken (history variable)
    loaded,   \* the store rebuilt by load_from_file, or None
    perspectives, \* the perspective set handed to through(), or None
    views,    \* the views through() has yielded so far
    writer    \* per shard: the write in flight (call, draft, next stage), or None

vars == <<graph, calls, file, saved, loaded, perspectives, views, writer>>

VertexCall(t, id, p) == <<"add_vertex", t, id, id, p>>
EdgeCall(t, src, dst, p) == <<"add_edge", t, src, dst, p>>

Init ==
    /\ graph = Graph(NumShards)
    /\ calls = EmptyBag
    /\ file = None
    /\ saved = None
    /\ loaded = None
    /\ perspectives = None
    /\ views = <<>>
    /\ writer = [s \in Shards(Graph(NumShards)) |-> None]

AddVertex(t, id, p) ==
    /\ BagCardinality(calls) < MaxWrites
    /\ graph' = add_vertex(graph, t, id, p)
    /\ calls' = calls (+) SetToBag({VertexCall(t, id, p)})
    /\ UNCHANGED <<file, saved, loaded, perspectives, views, writer>>

AddEdge(t, src, dst, p) ==
    /\ BagCardinality(calls) < MaxWrites
    /\ graph' = add_edge(graph, t, src, dst, p)
    /\ calls' = calls (+) SetToBag({EdgeCall(t, src, dst, p)})
    /\ UNCHANGED <<file, saved, loaded, perspectives, views, writer>>

Save ==
    /\ file' = Some(save_to_file(graph))
    /\ saved' = Some(graph)
    /\ UNCHANGED <<graph, calls, loaded, perspectives, views, writer>>

Load ==
    /\ file # None
    /\ loaded' = Some(load_from_file(file[1]))
    /\ UNCHANGED <<graph, calls, file, saved, perspectives, views, writer>>

\* Number of write calls begun and not yet published.
InFlight == Cardinality({s \in DOMAIN writer : writer[s] # None})

\* A write call begins: it takes the owning shard, which no other call is
\* writing, and starts from a draft of it.
BeginWrite(c) ==
    LET s == get_shard(c[3], NumShards)
    IN  /\ BagCardinality(calls) + InFlight < MaxWrites
        /\ writer[s] = None
        /\ writer' = [writer EXCEPT ![s] =
                        Some([call |-> c, draft |-> graph[s],
                              pc |-> IF c[1] = "add_edge" THEN "edge" ELSE "vertices"])]
        /\ UNCHANGED <<graph, calls, file, saved, loaded, perspectives, views>>

\* One stage of the write in flight on shard s.
Stage(s, pc, next, draft) ==
    /\ writer[s] # None
    /\ writer[s][1].pc = pc
    /\ writer' = [writer EXCEPT ![s] = Some([@[1] EXCEPT !.draft = draft, !.pc = next])]
    /\ graph' = staged(graph, s, draft)
    /\ UNCHANGED <<calls, file, saved, loaded, perspectives, views>>

StageEdge(s) ==
    /\ writer[s] # None
    /\ Stage(s, "edge", "vertices", stage_edge(writer[s][1].draft, writer[s][1].call))

StageVertices(s) ==
    /\ writer[s] # None
    /\ Stage(s, "vertices", "props", stage_vertices(writer[s][1].draft, writer[s][1].call))

StageProps(s) ==
    /\ writer[s] # None
    /\ Stage(s, "props", "ready", stage_props(writer[s][1].draft, writer[s][1].call))

\* The finished draft replaces the shard and the call returns.
Publish(s) ==
    /\ writer[s] # None
    /\ writer[s][1].pc = "ready"
    /\ graph' = publish(graph, s, writer[s][1].draft)
    /\ calls' = calls (+) SetToBag({writer[s][1].call})
    /\ writer' = [writer EXCEPT ![s] = None]
    /\ UNCHANGED <<file, saved, loaded, perspectives, views>>

\* perspectives = Perspective.rolling(window_size, start=start, end=end)
Rolling(window_size, start, end) ==
    /\ perspectives = None
    /\ perspectives' = Some(rolling(window_size, start, end))
    /\ UNCHANGED <<graph, calls, file, saved, loaded, views, writer>>

\* perspectives = Perspective.expanding(step, start=start, end=end)
Expanding(step, start, end) ==
    /\ perspectives = None
    /\ perspectives' = Some(expanding(step, start, end))
    /\ UNCHANGED <<graph, calls, file, saved, loaded, views, writer>>

\* One element of the lazy sequence g.through(perspectives) is produced.
ThroughNext ==
    /\ perspectives # None
    /\ LET ps == perspectives[1]
           cursor == ps.start + Len(views) * ps.step
       IN  /\ has_next(ps, cursor)
           /\ views' = views \o through(<<perspective_at(ps, cursor)>>)
    /\ UNCHANGED <<graph, calls, file, saved, loaded, perspectives, writer>>

\* Structural exploration: every id and time, writes that carry no property.
StructProps == {NoProps}

Next ==
    \/ \E t \in Times, id \in Ids, p \in StructProps : AddVertex(t, id, p)
    \/ \E t \in Times, src \in Ids, dst \in Ids, p \in StructProps : AddEdge(t, src, dst, p)

Spec == Init /\ [][Next]_vars

\* Property exploration: writes that carry one property or two, on two
\* vertices and the edges between them.
PropIds == {1, 2}

NextProps ==
    \/ \E t \in Times, id \in PropIds, p \in PropInputs : AddVertex(t, id, p)
    \/ \E t \in Times, src \in PropIds, dst \in PropIds, p \in PropInputs : AddEdge(t, src, dst, p)

SpecProps == Init /\ [][NextProps]_vars

\* Snapshot exploration, in the order of test_save_load_graph: the store is
\* built, saved and then loaded.  Every write carries the same property
\* input, so that histories hold duplicate values at distinct timestamps.
SavedProps == {[n \in {"prop1"} |-> <<"Int", 1>>]}

NextPersist ==
    \/ file = None /\ \E t \in Times, id \in Ids, p \in SavedProps : AddVertex(t, id, p)
    \/ file = None /\ \E t \in Times, src \in Ids, dst \in Ids, p \in SavedProps : AddEdge(t, src, dst, p)
    \/ Save
    \/ Load

SpecPersist == Init /\ [][NextPersist]_vars

\* Algorithm exploration, as in test_algorithms: the store is built by
\* add_edge calls alone, each carrying the same property input.
NextAlgorithms ==
    \E t \in Times, src \in Ids, dst \in Ids, p \in SavedProps : AddEdge(t, src, dst, p)

SpecAlgorithms == Init /\ [][NextAlgorithms]_vars

\* Perspective sweeps, as in test_perspective_set: a set is built from a
\* step, a start and a later end, and consumed one view at a time.
SweepStarts == {0, 1}
SweepEnds == {2, 4, 5}

NextPerspectives ==
    \/ \E w \in 1..MaxStep, a \in SweepStarts, b \in SweepEnds : Rolling(w, a, b)
    \/ \E w \in 1..MaxStep, a \in SweepStarts, b \in SweepEnds : Expanding(w, a, b)
    \/ ThroughNext

SpecPerspectives == Init /\ [][NextPerspectives]_vars

\* Concurrent writes: calls on different shards proceed stage by stage in
\* any interleaving, calls on one shard one after the other.  A read has no
\* effect on the state and sees the store of the state it happens in, so a
\* property of `graph` in every reachable state is a property of every read
\* under every interleaving.
WriteCalls ==
    {VertexCall(t, id, p) : t \in Times, id \in PropIds, p \in SavedProps}
        \cup {EdgeCall(t, e[1], e[2], p) : t \in Times, e \in PropIds \X PropIds, p \in SavedProps}

NextConcurrent ==
    \/ \E c \in WriteCalls : BeginWrite(c)
    \/ \E s \in Shards(graph) : StageEdge(s)
    \/ \E s \in Shards(graph) : StageVertices(s)
    \/ \E s \in Shards(graph) : StageProps(s)
    \/ \E s \in Shards(graph) : Publish(s)

SpecConcurrent == Init /\ [][NextConcurrent]_vars

\* ------------------------------------------------------- the call history
AllCalls == BagToSet(calls)
EdgeCalls == {c \in AllCalls : c[1] = "add_edge"}
\* Timestamps passed to add_vertex for id.
VertexCallTimes(id) == {c[2] : c \in {x \in AllCalls : x[1] = "add_vertex" /\ x[3] = id}}
\* Timestamps passed to add_edge with id as src or dst.
IncidentCallTimes(id) == {c[2] : c \in {x \in EdgeCalls : x[3] = id \/ x[4] = id}}
\* Timestamps passed to add_edge(t, src, dst) in exactly that direction.
EdgeCallTimes(src, dst) == {c[2] : c \in {x \in EdgeCalls : x[3] = src /\ x[4] = dst}}
\* Number of add_edge(t, src, dst) calls with a <= t < b.
EdgeCallsInside(src, dst, a, b) ==
    LET S == {c \in EdgeCalls : c[3] = src /\ c[4] = dst /\ a <= c[2] /\ c[2] < b}
    IN  BagCardinality([c \in S |-> CopiesIn(c, calls)])
Inside(T, a, b) == \E t \in T : a <= t /\ t < b

\* ------------------------------------------------------------------- C1
\* C1 as stated: in every window(a,b), has_vertex(id) holds iff some timestamp
\* passed to add_vertex for that id lies in [a,b).
C1_AddVertexOnly ==
    \A id \in Ids :
        LET T == VertexCallTimes(id)
        IN  \A a \in WinBounds, b \in WinBounds :
                has_vertex(graph, window(a, b), id) <=> Inside(T, a, b)

\* C1 amended: in every window(a,b), has_vertex(id) holds iff some timestamp
\* passed to add_vertex for that id, or to add_edge with that id as src or
\* dst, lies in [a,b) (lower bound inclusive, upper bound exclusive).
C1_HasVertexWindow ==
    \A id \in Ids :
        LET T == VertexCallTimes(id) \cup IncidentCallTimes(id)
        IN  \A a \in WinBounds, b \in WinBounds :
                has_vertex(graph, window(a, b), id) <=> Inside(T, a, b)

\* A vertex passed to add_vertex only at time 1 and an endpoint of an edge
\* only at time 0: visible in window(1,2) by the first and in window(0,1),
\* whose end is exactly the add_vertex timestamp, by the second; not visible
\* in window(-1,0), whose end is exactly the edge's timestamp.
C1_Witness ==
    \E id \in Ids :
        /\ VertexCallTimes(id) = {1}
        /\ IncidentCallTimes(id) = {0}
        /\ has_vertex(graph, window(1, 2), id)
        /\ has_vertex(graph, window(0, 1), id)
        /\ ~has_vertex(graph, window(-1, 0), id)

\* ------------------------------------------------------------------- C2
\* C2: after add_edge(t, src, dst), src and dst are listed by vertex_ids() of
\* every window(a,b) with a <= t < b, with or without an add_vertex call in
\* the window; an id is not listed in a window that holds none of its
\* add_vertex timestamps and none of its incident add_edge timestamps.
C2_EdgeEndpointsListed ==
    \A a \in WinBounds, b \in WinBounds :
        LET listed == vertex_ids(graph, window(a, b))
        IN  /\ \A c \in EdgeCalls :
                (a <= c[2] /\ c[2] < b) => {c[3], c[4]} \subseteq listed
            /\ \A id \in Ids :
                ~Inside(VertexCallTimes(id) \cup IncidentCallTimes(id), a, b)
                    => id \notin listed

\* An edge at time 0 whose dst has no add_vertex call at all: dst is listed in
\* window(0,1) and not in window(1,2).
C2_Witness ==
    \E c \in EdgeCalls :
        /\ c[2] = 0 /\ c[3] # c[4]
        /\ VertexCallTimes(c[4]) = {}
        /\ IncidentCallTimes(c[4]) = {0}
        /\ c[4] \in vertex_ids(graph, window(0, 1))
        /\ c[4] \notin vertex_ids(graph, window(1, 2))

FixtureLens == <<len(create_graph(2), FullView), edges_len(create_graph(2), FullView)>>

\* C4: on the unwindowed store edges_len() is the number of distinct
\* (src,dst) pairs passed to add_edge and len() the number of distinct ids
\* passed to add_vertex or as an add_edge endpoint; the fixture has len 3 and
\* edges_len 5.
C4_DistinctCounts ==
    /\ edges_len(graph, FullView) = Cardinality({<<c[3], c[4]>> : c \in EdgeCalls})
    /\ len(graph, FullView) = Cardinality({c[3] : c \in AllCalls} \cup {c[4] : c \in AllCalls})
    /\ FixtureLens = <<3, 5>>

\* Three add_edge calls for one pair, at two distinct times: one counted edge.
C4_Witness ==
    \E src \in Ids, dst \in Ids :
        /\ EdgeCallsInside(src, dst, 0, 2) = 3
        /\ Cardinality(EdgeCallTimes(src, dst)) = 2
        /\ edges_len(graph, FullView) = 1
        /\ len(graph, FullView) = Cardinality({src, dst})

\* ------------------------------------------------------------ C5, C6, C7
Windows == {window(a, b) : a \in WinBounds, b \in WinBounds}
\* The windows with start < end; the others are empty views.
ProperWindows ==
    {window(p[1], p[2]) : p \in {q \in WinBounds \X WinBounds : q[1] < q[2]}}
PointViews == {at(t) : t \in WinBounds}
AllViews == {FullView} \cup Windows \cup PointViews

\* window(0, sys.maxsize) on the fixture: sys.maxsize lies beyond the last
\* fixture timestamp, 7, and any end above 7 gives the same view.
FixtureView == window(0, 8)
\* <<degree, in_degree, out_degree>> of every fixture vertex in that view.
FixtureDegrees ==
    [v \in Ids |-> << degree(create_graph(2), FixtureView, v, "BOTH"),
                      degree(create_graph(2), FixtureView, v, "IN"),
                      degree(create_graph(2), FixtureView, v, "OUT") >>]

\* C5 as stated: in every view, degree(v, BOTH) = in_degree(v) + out_degree(v).
C5_DegreeIsSum ==
    \A view \in AllViews, v \in Ids :
        degree(graph, view, v, "BOTH")
            = degree(graph, view, v, "IN") + degree(graph, view, v, "OUT")

\* C5 amended: in every view, degree(v, BOTH) = in_degree(v) + out_degree(v)
\* minus the number of ids that are both an in- and an out-neighbour of v in
\* the view; a self-loop makes v such an id, counted once in IN, once in OUT
\* and once in BOTH.
C5_DegreeIsUnion ==
    \A view \in AllViews, v \in Ids :
        degree(graph, view, v, "BOTH")
            = degree(graph, view, v, "IN") + degree(graph, view, v, "OUT")
              - Cardinality(in_neighbours_ids(graph, view, v)
                               \cap out_neighbours_ids(graph, view, v))

\* A vertex with a self-loop and one further out-neighbour: in 1, out 2, both 2.
C5_Witness ==
    \E v \in Ids :
        /\ EdgeCallTimes(v, v) # {}
        /\ degree(graph, FullView, v, "IN") = 1
        /\ degree(graph, FullView, v, "OUT") = 2
        /\ degree(graph, FullView, v, "BOTH") = 2

\* C6 as stated: in every window, the degree of a vertex is the number of
\* add_edge calls incident to it with a timestamp in the window, so two calls
\* for one (src,dst) pair add two.
C6_DegreeCountsCalls ==
    \A v \in Ids, a \in WinBounds, b \in WinBounds :
        LET outs == {c \in EdgeCalls : c[3] = v /\ a <= c[2] /\ c[2] < b}
            ins  == {c \in EdgeCalls : c[4] = v /\ a <= c[2] /\ c[2] < b}
            count(S) == BagCardinality([c \in S |-> CopiesIn(c, calls)])
        IN  /\ degree(graph, window(a, b), v, "OUT") = count(outs)
            /\ degree(graph, window(a, b), v, "IN") = count(ins)
            /\ degree(graph, window(a, b), v, "BOTH") = count(outs) + count(ins)

\* C6 amended: degree is not a count of observations.  An add_edge(t, src,
\* dst) call leaves every degree unchanged in each window around t that
\* already holds an observation of (src,dst); in a window around t that holds
\* none it adds one to out_degree(src) and one to in_degree(dst).
C6_RepeatKeepsDegree ==
    [][ \A c \in BagToSet(calls') :
            (c[1] = "add_edge" /\ calls' = calls (+) SetToBag({c})) =>
                \A a \in WinBounds, b \in WinBounds :
                    (a <= c[2] /\ c[2] < b) =>
                        IF has_edge(graph, window(a, b), c[3], c[4])
                        THEN \A v \in Ids, dir \in Directions :
                                degree(graph', window(a, b), v, dir)
                                    = degree(graph, window(a, b), v, dir)
                        ELSE /\ degree(graph', window(a, b), c[3], "OUT")
                                    = degree(graph, window(a, b), c[3], "OUT") + 1
                             /\ degree(graph', window(a, b), c[4], "IN")
                                    = degree(graph, window(a, b), c[4], "IN") + 1
      ]_vars

\* Two add_edge calls for one pair inside window(0,2), at distinct times:
\* src has out-degree 1 there, dst in-degree 1.
C6_Witness ==
    \E src \in Ids, dst \in Ids :
        /\ src # dst
        /\ EdgeCallTimes(src, dst) = {0, 1}
        /\ degree(graph, window(0, 2), src, "OUT") = 1
        /\ degree(graph, window(0, 2), dst, "IN") = 1
        /\ degree(graph, window(0, 2), src, "BOTH") = 1

\* C7: in every windowed and point-in-time view, in_degree(v) is the number of
\* distinct src ids with an add_edge(t, src, v) inside the view, out_degree(v)
\* the number of distinct dst ids likewise, and degree(v) the number of
\* distinct ids that are either; on the fixture in window(0, max) vertex 1 has
\* degree 3, in-degree 1 and out-degree 3.
C7_DegreeCountsNeighbours ==
    LET T == [p \in Ids \X Ids |-> EdgeCallTimes(p[1], p[2])]
    IN  /\ \A v \in Ids, a \in WinBounds, b \in WinBounds :
                LET srcs == {u \in Ids : Inside(T[<<u, v>>], a, b)}
                    dsts == {u \in Ids : Inside(T[<<v, u>>], a, b)}
                IN  /\ degree(graph, window(a, b), v, "IN") = Cardinality(srcs)
                    /\ degree(graph, window(a, b), v, "OUT") = Cardinality(dsts)
                    /\ degree(graph, window(a, b), v, "BOTH") = Cardinality(srcs \cup dsts)
        /\ \A v \in Ids, t \in WinBounds :
                LET srcs == {u \in Ids : \E x \in T[<<u, v>>] : x <= t}
                    dsts == {u \in Ids : \E x \in T[<<v, u>>] : x <= t}
                IN  /\ degree(graph, at(t), v, "IN") = Cardinality(srcs)
                    /\ degree(graph, at(t), v, "OUT") = Cardinality(dsts)
                    /\ degree(graph, at(t), v, "BOTH") = Cardinality(srcs \cup dsts)
        /\ FixtureDegrees[1] = <<3, 1, 3>>

\* A vertex with a self-loop, one out-neighbour and one in-neighbour inside
\* window(0,2): in-degree 2, out-degree 2, degree 3.
C7_Witness ==
    \E v \in Ids :
        /\ EdgeCallTimes(v, v) # {}
        /\ degree(graph, window(0, 2), v, "IN") = 2
        /\ degree(graph, window(0, 2), v, "OUT") = 2
        /\ degree(graph, window(0, 2), v, "BOTH") = 3

\* ------------------------------------------------------------------- C8
Entities == {<<id>> : id \in PropIds} \cup (PropIds \X PropIds)

Min(S) == CHOOSE x \in S : \A y \in S : x <= y

\* C8: for every time t, at(t) answers has_vertex, has_edge, vertex_ids,
\* degree, neighbours and props as the window with no lower bound and the
\* exclusive upper bound t+1 does; a vertex or edge first observed at t is
\* visible in at(t) and is not visible in at(t-1).
C8_AtIsWindow ==
    /\ \A t \in WinBounds :
        LET p == at(t)
            w == Window(None, Some(t + 1))
        IN  /\ vertex_ids(graph, p) = vertex_ids(graph, w)
            /\ len(graph, p) = len(graph, w)
            /\ edges_len(graph, p) = edges_len(graph, w)
            /\ \A id \in PropIds :
                /\ has_vertex(graph, p, id) <=> has_vertex(graph, w, id)
                /\ \A dir \in Directions :
                    /\ neighbours_ids(graph, p, id, dir) = neighbours_ids(graph, w, id, dir)
                    /\ degree(graph, p, id, dir) = degree(graph, w, id, dir)
            /\ \A src \in PropIds, dst \in PropIds :
                has_edge(graph, p, src, dst) <=> has_edge(graph, w, src, dst)
            /\ \A e \in Entities : props(graph, p, e) = props(graph, w, e)
    /\ \A id \in PropIds :
        LET T == VertexCallTimes(id) \cup IncidentCallTimes(id)
        IN  T # {} => /\ has_vertex(graph, at(Min(T)), id)
                      /\ ~has_vertex(graph, at(Min(T) - 1), id)
    /\ \A src \in PropIds, dst \in PropIds :
        LET T == EdgeCallTimes(src, dst)
        IN  T # {} => /\ has_edge(graph, at(Min(T)), src, dst)
                      /\ ~has_edge(graph, at(Min(T) - 1), src, dst)

\* A vertex and an edge first observed at time 1, the edge carrying a
\* property: both and the property entry are in at(1), none is in at(0).
C8_Witness ==
    \E src \in PropIds, dst \in PropIds :
        /\ EdgeCallTimes(src, dst) = {1}
        /\ VertexCallTimes(dst) \cup IncidentCallTimes(dst) = {1}
        /\ has_vertex(graph, at(1), dst) /\ ~has_vertex(graph, at(0), dst)
        /\ has_edge(graph, at(1), src, dst) /\ ~has_edge(graph, at(0), src, dst)
        /\ degree(graph, at(1), dst, "IN") = 1 /\ degree(graph, at(0), dst, "IN") = 0
        /\ Len(prop(graph, at(1), <<src, dst>>, "prop1")) = 1
        /\ prop(graph, at(0), <<src, dst>>, "prop1") = <<>>

\* ------------------------------------------------------------------- C9
\* The calls that wrote to a vertex <<id>> or an edge <<src, dst>>.
CallsOn(entity) ==
    IF Len(entity) = 1
    THEN {c \in AllCalls : c[1] = "add_vertex" /\ c[3] = entity[1]}
    ELSE {c \in EdgeCalls : c[3] = entity[1] /\ c[4] = entity[2]}

\* The <<t, value>> entries the calls supplied for a property, as a bag.
Supplied(entity, name) ==
    LET cs == {c \in CallsOn(entity) : name \in DOMAIN c[5]}
        entry(c) == <<c[2], c[5][name]>>
    IN  [e \in {entry(c) : c \in cs} |->
            BagCardinality([c \in {x \in cs : entry(x) = e} |-> CopiesIn(c, calls)])]

SeqToBag(h) ==
    [e \in {h[i] : i \in DOMAIN h} |-> Cardinality({i \in DOMAIN h : h[i] = e})]

Ascending(h) == \A i \in 1..(Len(h) - 1) : h[i][1] <= h[i + 1][1]

QueriedNames == {"prop1", "prop2", "undefined"}

\* C9: prop(name) on a vertex or edge holds exactly one <<t, value>> entry per
\* add_vertex/add_edge call that supplied the property for that entity,
\* identical values included, in ascending timestamp order, and is the empty
\* sequence when no call supplied it.
C9_PropHistoryComplete ==
    \A e \in Entities, n \in QueriedNames :
        LET h == prop(graph, FullView, e, n)
            supplied == Supplied(e, n)
        IN  /\ SeqToBag(h) = supplied
            /\ Ascending(h)
            /\ (supplied = EmptyBag => h = <<>>)

\* One entity was given the same value of prop1 first at time 1 and then at
\* time 0: prop returns both entries, the earlier timestamp first, and a
\* property never set on it returns the empty sequence.
C9_Witness ==
    \E e \in Entities :
        /\ history(graph, e, "prop1") = << <<1, <<"Int", 1>>>>, <<0, <<"Int", 1>>>> >>
        /\ prop(graph, FullView, e, "prop1") = << <<0, <<"Int", 1>>>>, <<1, <<"Int", 1>>>> >>
        /\ prop(graph, FullView, e, "undefined") = <<>>

\* ------------------------------------------------------------------ C10
\* Existence timestamps of a vertex, and of an edge with their multiplicity.
vertex_times(g, id) == {e[2] : e \in {x \in vertex_entries(g) : x[1] = id}}
edge_times(g, src, dst) ==
    LET es == {e \in edge_entries(g) : e[1] = src /\ e[2] = dst}
    IN  [t \in {e[3] : e \in es} |-> edge_copies(g, <<src, dst, t>>)]

triangle_calls ==
    << <<"add_edge", 1, 1, 2, [n \in {"prop1"} |-> <<"Int", 1>>]>>,
       <<"add_edge", 2, 2, 3, [n \in {"prop1"} |-> <<"Int", 1>>]>>,
       <<"add_edge", 3, 3, 1, [n \in {"prop1"} |-> <<"Int", 1>>]>> >>

triangle_graph == apply_calls(Graph(1), triangle_calls)

\* (src,dst) pairs passed to add_edge with a timestamp in [a, b).
PairsCalledInside(a, b) ==
    {<<c[3], c[4]>> : c \in {x \in EdgeCalls : a <= x[2] /\ x[2] < b}}

\* C13: local_triangle_count(view, v) is the number of unordered pairs of
\* distinct neighbours of v (either direction, each id once, by edges
\* observed inside the window) that are joined by an edge observed inside
\* the window in either direction; for the cycle 1->2, 2->3, 3->1 at times
\* 1, 2, 3 and window(0,4) the count of vertex 1 is 1.
C13_TriangleCount ==
    /\ \A w \in {p \in WinBounds \X WinBounds : p[1] < p[2]} :
            LET a == w[1]
                b == w[2]
                E == PairsCalledInside(a, b)
                linked(x, y) == <<x, y>> \in E \/ <<y, x>> \in E
            IN  \A v \in Ids :
                    local_triangle_count(graph, window(a, b), v)
                        = Cardinality({p \in SUBSET {n \in Ids : linked(v, n)} :
                                          /\ Cardinality(p) = 2
                                          /\ \E x \in p, y \in p : x # y /\ linked(x, y)})
    /\ local_triangle_count(triangle_graph, window(0, 4), 1) = 1

\* Three edges between three distinct vertices, the last of them at time 1:
\* one triangle through v in window(0,2), none in window(0,1).
C13_Witness ==
    \E v \in Ids :
        /\ Cardinality(EdgeCalls) = 3
        /\ \A c \in EdgeCalls : c[3] # c[4]
        /\ local_triangle_count(graph, window(0, 2), v) = 1
        /\ local_triangle_count(graph, window(0, 1), v) = 0

\* ------------------------------------------------------------------ C14
\* The write calls a step adds to the call history.
NewCalls == {c \in BagToSet(calls') : CopiesIn(c, calls') > CopiesIn(c, calls)}

FixtureSweeps ==
    << through(generate(rolling(5, 0, 4), 0)), through(generate(expanding(5, 0, 4), 0)) >>

EntriesAt(h, t) == Cardinality({i \in DOMAIN h : h[i][1] = t})

====
